---- MODULE Spec2Model ----
(***************************************************************************)
(* Model of b9/include/b9/objects.hpp: the map (hidden class) cells, the   *)
(* Object slot protocol (index / get / set / newSlot / copy construction)  *)
(* and the SymbolTable that interns property names.                        *)
(*                                                                         *)
(* The heap of Map cells is the sequence maps; a Map* is an index into it  *)
(* and Wild is a pointer that points at no cell.  Objects live in objs.    *)
(***************************************************************************)
EXTENDS Integers, Sequences, FiniteSets, TLC

\* ---------------------------------------------------------------- bounds
\* identifiers the client passes to index/get/set/newSlot: 0..MaxId
MaxId == 1
\* values the client stores: 0..MaxValue
MaxValue == 1
\* objects alive at once (the first one plus copies)
MaxObjects == 2
\* calls of operator new(size, cx) after construction
MaxAlloc == 2
\* distinct strings handed to SymbolTable::lookup
MaxNames == 4

\* ------------------------------------------------------- program constants
\* Object::MAX_SLOTS
MAX_SLOTS == 32
\* Index is std::uint8_t: ObjectMap stores index_ modulo 2^8
IndexMod == 256
\* a Map* member (Cell::map_) is as wide as two Values (LP64)
PtrWords == 2

Ids == 0 .. MaxId
Values == 0 .. MaxValue
Names == 1 .. MaxNames

\* a pointer to no cell
Wild == 0

\* MapKind
OBJECT_MAP == "OBJECT_MAP"
MAP_MAP == "MAP_MAP"
EMPTY_OBJECT_MAP == "EMPTY_OBJECT_MAP"

VARIABLES
  maps,         \* heap of Map cells: MapMap, EmptyObjectMap and ObjectMaps
  objs,         \* the Objects: [map, slots]
  allocs,       \* number of operator new(size, cx) calls made so far
  written,      \* per object and Id: what the last set wrote, and where
  cloneOf,      \* per object: the object it was copy-constructed from, or 0
  lookupTable,  \* SymbolTable::lookupTable_
  nextId,       \* IdGenerator::nextId_
  ret           \* the last call: its arguments, its result, how it ended

vars == <<maps, objs, allocs, written, cloneOf, lookupTable, nextId, ret>>

\* ------------------------------------------------------------ Map cells
\* Map::Map(MapMap* map, MapKind kind): Cell(map), kind_(kind).  The fields
\* parent/id/index exist in ObjectMap only; other kinds carry no such field.
Map(map, kind) ==
  [kind |-> kind, map |-> map, parent |-> Wild, id |-> 0, index |-> 0]

\* MapMap::MapMap() : Map(this, MAP_MAP), for the cell at address self
MapMap(self) == Map(self, MAP_MAP)

\* EmptyObjectMap::EmptyObjectMap(MapMap* map)
EmptyObjectMap(map) == Map(map, EMPTY_OBJECT_MAP)

\* Map::mapMap(): (MapMap*)map()
mapMap(ms, m) == ms[m].map

\* ObjectMap::ObjectMap(EmptyObjectMap* parent, Id id): index_(0)
ObjectMapOnEmpty(ms, parent, id) ==
  [kind |-> OBJECT_MAP, map |-> mapMap(ms, parent),
   parent |-> parent, id |-> id, index |-> 0]

\* a constructor that forgets the + 1
ObjectMapOnObjectMap_SameIndex(ms, parent, id) ==
  [kind |-> OBJECT_MAP, map |-> mapMap(ms, parent),
   parent |-> parent, id |-> id, index |-> ms[parent].index]

\* ObjectMap::ObjectMap(ObjectMap* parent, Id id): index_(parent->index() + 1),
\* the int sum narrowed to the std::uint8_t member
ObjectMapOnObjectMap(ms, parent, id) ==
  [kind |-> OBJECT_MAP, map |-> mapMap(ms, parent),
   parent |-> parent, id |-> id, index |-> (ms[parent].index + 1) % IndexMod]

\* the context's two singletons: the MapMap at 1, the EmptyObjectMap at 2
MapMapRef == 1
EmptyRef == 2
Singletons == <<MapMap(MapMapRef), EmptyObjectMap(MapMapRef)>>

\* the cell Object::newSlot constructs on the map m (the two cases of its
\* switch that allocate)
NewSlotCell(ms, m, id) ==
  IF ms[m].kind = EMPTY_OBJECT_MAP
  THEN ObjectMapOnEmpty(ms, m, id)
  ELSE ObjectMapOnObjectMap(ms, m, id)

\* ----------------------------------------------------------------- loops
\* A loop: Body is applied to the loop state until the state is done, at
\* most n times.  (Halving n keeps the evaluation shallow on long chains.)
RECURSIVE Repeat(_, _, _)
Repeat(Body(_), st, n) ==
  IF st.done THEN st
  ELSE IF n <= 1 THEN Body(st)
  ELSE Repeat(Body, Repeat(Body, st, n \div 2), n - (n \div 2))

\* ---------------------------------------------------- Object::index(Id)
\* a walk that notes a match and goes on to the parent
IndexStep_KeepWalking(ms, id, st) ==
  IF ms[st.m].kind = EMPTY_OBJECT_MAP
  THEN [st EXCEPT !.done = TRUE]
  ELSE IF ms[st.m].kind = MAP_MAP
  THEN [st EXCEPT !.done = TRUE, !.ub = TRUE]
  ELSE IF ms[st.m].id = id
  THEN [st EXCEPT !.found = TRUE, !.index = ms[st.m].index,
                  !.m = ms[st.m].parent]
  ELSE [st EXCEPT !.m = ms[st.m].parent]

\* a walk that passes every ObjectMap, whatever its id
IndexStep_NoMatch(ms, id, st) ==
  IF ms[st.m].kind = EMPTY_OBJECT_MAP
  THEN [st EXCEPT !.done = TRUE]
  ELSE IF ms[st.m].kind = MAP_MAP
  THEN [st EXCEPT !.done = TRUE, !.ub = TRUE]
  ELSE [st EXCEPT !.m = ms[st.m].parent]

\* One pass of the for loop of Object::index at the map st.m: it stops at the
\* EmptyObjectMap, and casts every other cell to ObjectMap.  A MapMap has no
\* id_/parent_ fields: the cast reads past the cell, so what the walk does
\* from there is undefined (ub).
IndexStep(ms, id, st) ==
  IF ms[st.m].kind = EMPTY_OBJECT_MAP
  THEN [st EXCEPT !.done = TRUE]
  ELSE IF ms[st.m].kind = MAP_MAP
  THEN [st EXCEPT !.done = TRUE, !.ub = TRUE]
  ELSE IF ms[st.m].id = id
  THEN [st EXCEPT !.done = TRUE, !.found = TRUE, !.index = ms[st.m].index]
  ELSE [st EXCEPT !.m = ms[st.m].parent]

\* the walk of Object::index from the map m; a chain has at most Len(ms) cells
ObjectIndex(ms, m, id) ==
  LET st == Repeat(LAMBDA s : IndexStep(ms, id, s),
                   [m |-> m, done |-> FALSE, index |-> 0, found |-> FALSE,
                    ub |-> FALSE],
                   Len(ms))
  IN  [index |-> st.index, found |-> st.found, ub |-> st.ub]

\* number of ObjectMaps between m and the first cell of another kind
DepthStep(ms, st) ==
  IF st.m = Wild \/ ms[st.m].kind # OBJECT_MAP
  THEN [st EXCEPT !.done = TRUE]
  ELSE [st EXCEPT !.m = ms[st.m].parent, !.n = @ + 1]

Depth(ms, m) ==
  Repeat(LAMBDA s : DepthStep(ms, s), [m |-> m, done |-> FALSE, n |-> 0],
         Len(ms) + 1).n

\* ------------------------------------------------------------- Objects
\* memset(slots_, 0, MAX_SLOTS * sizeof(Value))
ZeroSlots == [i \in 0 .. MAX_SLOTS - 1 |-> 0]

\* Object::Object(ObjectMap* map) and Object::Object(EmptyObjectMap* map)
Object(map) == [map |-> map, slots |-> ZeroSlots]

\* Object::Object(Object& other): Cell(other.map()), memcpy of the slots
ObjectCopy(other) == [map |-> other.map, slots |-> other.slots]

\* the object's map_ points at a cell
Valid(o) == objs[o].map # Wild

\* ------------------------------------------------------ initial states
\* Shape chains the object has when the run starts: none, or one short of
\* MAX_SLOTS properties.
PreDepths == {0, MAX_SLOTS - 1}

\* the i-th property of such a chain: identifiers the run itself never passes
FillerId(i) == MaxId + i

\* The heap after k calls newSlot(cx, FillerId(1)), ..., newSlot(cx, FillerId(k))
\* on an object constructed on the EmptyObjectMap: each call adds a cell on
\* the last one.
PrebuiltStep(k, st) ==
  LET ms == Append(st.ms, NewSlotCell(st.ms, Len(st.ms), FillerId(Len(st.ms) - 1)))
  IN  [ms |-> ms, done |-> Len(ms) = k + 2]

PrebuiltMaps(k) ==
  Repeat(LAMBDA s : PrebuiltStep(k, s), [ms |-> Singletons, done |-> k = 0], k).ms

\* While k <= MAX_SLOTS that heap, with all slots zero, is also the state
\* after set(cx, FillerId(i), 0) for i = 1..k: that is what written records.
PrebuiltWritten(k) ==
  IF k <= MAX_SLOTS
  THEN [id \in {FillerId(i) : i \in 1 .. k} |->
          [value |-> 0, index |-> id - MaxId - 1]]
  ELSE << >>

NoRet ==
  [op |-> "none", obj |-> 0, id |-> 0, value |-> 0, index |-> 0,
   found |-> FALSE, err |-> "none"]

\* one object with a chain of k properties
InitAt(k) ==
  /\ maps = PrebuiltMaps(k)
  /\ objs = << Object(k + 2) >>
  /\ allocs = 0
  /\ written = << PrebuiltWritten(k) >>
  /\ cloneOf = << 0 >>
  /\ lookupTable = << >>
  /\ nextId = 0
  /\ ret = NoRet

Init == \E k \in PreDepths : InitAt(k)

\* an object that newSlot has extended until the next index is the last
\* value of Index
InitDeep == InitAt(IndexMod - 1)

\* the state right after the context and one empty object are constructed
InitEmpty ==
  /\ maps = Singletons
  /\ objs = << Object(EmptyRef) >>
  /\ allocs = 0
  /\ written = << << >> >>
  /\ cloneOf = << 0 >>
  /\ lookupTable = << >>
  /\ nextId = 0
  /\ ret = NoRet

\* Two objects laid out one behind the other: the first has had
\* set(cx, FillerId(i), 0) for i = 1..PairDepth, which took it past its
\* MAX_SLOTS slots by the PtrWords words of a map_ (stores of 0 that left no
\* trace), the second was then constructed on the EmptyObjectMap.
PairDepth == MAX_SLOTS + PtrWords

InitPair ==
  /\ maps = PrebuiltMaps(PairDepth)
  /\ objs = << Object(PairDepth + 2), Object(EmptyRef) >>
  /\ allocs = 0
  /\ written = << [id \in {FillerId(i) : i \in 1 .. PairDepth} |->
                     [value |-> 0, index |-> id - MaxId - 1]],
                  << >> >>
  /\ cloneOf = << 0, 0 >>
  /\ lookupTable = << >>
  /\ nextId = 0
  /\ ret = NoRet

\* ------------------------------------------------- undefined behaviour
\* slots_[idx] with idx >= MAX_SLOTS is a store past the end of the object.
\* It lands in memory no modelled cell occupies, or in the object n laid out
\* right behind: w Values past n's start is n's map_ (the first PtrWords
\* words, leaving a pointer to no cell) or n's slot w - PtrWords.
StrayStore(obs, n, w, v) ==
  IF w < PtrWords
  THEN [obs EXCEPT ![n].map = Wild]
  ELSE IF w - PtrWords < MAX_SLOTS
  THEN [obs EXCEPT ![n].slots[w - PtrWords] = v]
  ELSE obs

\* slots_[idx] = v in object o: every heap the store can leave
StoreOutcomes(obs, o, idx, v) ==
  IF idx < MAX_SLOTS
  THEN {[obs EXCEPT ![o].slots[idx] = v]}
  ELSE {obs} \cup {StrayStore(obs, n, idx - MAX_SLOTS, v) : n \in DOMAIN obs \ {o}}

\* Value value = slots_[idx]: past the end the read yields whatever is there
LoadOutcomes(ob, idx) ==
  IF idx < MAX_SLOTS THEN {ob.slots[idx]} ELSE Values

\* index_ bytes a walk over a MapMap cell may read
GarbageIndex == {0, MAX_SLOTS, IndexMod - 1}

\* indices a client passes to ObjectMap::index(Index)
IndexInputs == {MAX_SLOTS}

\* Object::index(Id id): every result the call can have.  On a chain of
\* ObjectMaps ending in the EmptyObjectMap there is exactly one.  When the
\* walk meets a MapMap it reads fields the cell does not have: it faults, or
\* matches with a garbage index, or wanders on to an EmptyObjectMap.
IndexOutcomes(ms, ob, id) ==
  LET r == ObjectIndex(ms, ob.map, id)
  IN  IF r.ub
      THEN {[index |-> 0, found |-> FALSE, err |-> "segv"],
            [index |-> 0, found |-> FALSE, err |-> "none"]}
           \cup {[index |-> g, found |-> TRUE, err |-> "none"] : g \in GarbageIndex}
      ELSE {[index |-> r.index, found |-> r.found, err |-> "none"]}

\* a get that answers found for every identifier
GetResult_AlwaysFound(lookup, value) ==
  [value |-> value, found |-> TRUE]

\* the pair Object::get returns for a lookup and the slot's value
GetResult(lookup, value) ==
  IF lookup.found
  THEN [value |-> value, found |-> TRUE]
  ELSE [value |-> 0, found |-> FALSE]

\* Object::get(cx, id) on the object ob: every result the call can have
GetOutcomes(ms, ob, id) ==
  UNION {IF lookup.err # "none"
         THEN {[value |-> 0, found |-> FALSE, index |-> 0, err |-> lookup.err]}
         ELSE {[value |-> GetResult(lookup, value).value,
                found |-> GetResult(lookup, value).found,
                index |-> lookup.index, err |-> "none"] :
               value \in (IF lookup.found
                          THEN LoadOutcomes(ob, lookup.index)
                          ELSE {0})} :
         lookup \in IndexOutcomes(ms, ob, id)}

\* a newSlot that reuses a cell with the same parent and id if there is one
NewSlotResult_Shared(ms, ob, id) ==
  IF ms[ob.map].kind \in {EMPTY_OBJECT_MAP, OBJECT_MAP}
  THEN LET cell == NewSlotCell(ms, ob.map, id)
           same == {m \in DOMAIN ms : ms[m] = cell}
       IN  IF same # {}
           THEN [maps |-> ms, obj |-> [ob EXCEPT !.map = CHOOSE m \in same : TRUE],
                 index |-> cell.index, err |-> "none"]
           ELSE [maps |-> Append(ms, cell),
                 obj |-> [ob EXCEPT !.map = Len(ms) + 1],
                 index |-> cell.index, err |-> "none"]
  ELSE [maps |-> ms, obj |-> ob, index |-> 0, err |-> "runtime_error"]

\* a newSlot that allocates the cell and leaves the object on its old map
NewSlotResult_NoRepoint(ms, ob, id) ==
  IF ms[ob.map].kind \in {EMPTY_OBJECT_MAP, OBJECT_MAP}
  THEN LET cell == NewSlotCell(ms, ob.map, id)
       IN  [maps |-> Append(ms, cell), obj |-> ob, index |-> cell.index,
            err |-> "none"]
  ELSE [maps |-> ms, obj |-> ob, index |-> 0, err |-> "runtime_error"]

\* Object::newSlot(cx, id) on the object ob: the heap and the object after
\* it, and the index it returns; the default case of the switch throws
\* std::runtime_error before anything is allocated or assigned.
NewSlotResult(ms, ob, id) ==
  IF ms[ob.map].kind \in {EMPTY_OBJECT_MAP, OBJECT_MAP}
  THEN LET cell == NewSlotCell(ms, ob.map, id)
       IN  [maps |-> Append(ms, cell),
            obj |-> [ob EXCEPT !.map = Len(ms) + 1],
            index |-> cell.index,
            err |-> "none"]
  ELSE [maps |-> ms, obj |-> ob, index |-> 0, err |-> "runtime_error"]

\* written after set(o, id, value) returned index
Record(w, o, id, value, index) ==
  [w EXCEPT ![o] =
     [i \in DOMAIN @ \cup {id} |->
        IF i = id THEN [value |-> value, index |-> index] ELSE @[i]]]

\* ------------------------------------------------------------ actions
Call(op, o, id, value, index, found, err) ==
  [op |-> op, obj |-> o, id |-> id, value |-> value, index |-> index,
   found |-> found, err |-> err]

\* std::pair<Index, bool> Object::index(Id id)
Index(o, id) ==
  /\ Valid(o)
  /\ \E lookup \in IndexOutcomes(maps, objs[o], id) :
       ret' = Call("index", o, id, 0, lookup.index, lookup.found, lookup.err)
  /\ UNCHANGED <<maps, objs, allocs, written, cloneOf, lookupTable, nextId>>

\* std::pair<Value, bool> Object::get(Context& cx, Id id)
Get(o, id) ==
  /\ Valid(o)
  /\ \E r \in GetOutcomes(maps, objs[o], id) :
       ret' = Call("get", o, id, r.value, r.index, r.found, r.err)
  /\ UNCHANGED <<maps, objs, allocs, written, cloneOf, lookupTable, nextId>>

\* std::size_t Object::newSlot(Context& cx, Id id)
NewSlot(o, id) ==
  /\ Valid(o)
  /\ LET ns == NewSlotResult(maps, objs[o], id)
     IN  IF ns.err # "none"
         THEN /\ ret' = Call("newSlot", o, id, 0, 0, FALSE, ns.err)
              /\ UNCHANGED <<maps, objs, allocs>>
         ELSE /\ allocs < MaxAlloc
              /\ allocs' = allocs + 1
              /\ maps' = ns.maps
              /\ objs' = [objs EXCEPT ![o] = ns.obj]
              /\ ret' = Call("newSlot", o, id, 0, ns.index, FALSE, "none")
  /\ UNCHANGED <<written, cloneOf, lookupTable, nextId>>

\* Index Object::set(Context& cx, Id id, Value value)
Set(o, id, value) ==
  /\ Valid(o)
  /\ \E lookup \in IndexOutcomes(maps, objs[o], id) :
       IF lookup.err # "none"
       THEN /\ ret' = Call("set", o, id, value, 0, FALSE, lookup.err)
            /\ UNCHANGED <<maps, objs, allocs, written>>
       ELSE IF lookup.found
       THEN /\ objs' \in StoreOutcomes(objs, o, lookup.index, value)
            /\ written' = Record(written, o, id, value, lookup.index)
            /\ ret' = Call("set", o, id, value, lookup.index, TRUE, "none")
            /\ UNCHANGED <<maps, allocs>>
       ELSE LET ns == NewSlotResult(maps, objs[o], id)
            IN  IF ns.err # "none"
                THEN /\ ret' = Call("set", o, id, value, 0, FALSE, ns.err)
                     /\ UNCHANGED <<maps, objs, allocs, written>>
                ELSE /\ allocs < MaxAlloc
                     /\ allocs' = allocs + 1
                     /\ maps' = ns.maps
                     /\ objs' \in StoreOutcomes([objs EXCEPT ![o] = ns.obj],
                                                o, ns.index, value)
                     /\ written' = Record(written, o, id, value, ns.index)
                     /\ ret' = Call("set", o, id, value, ns.index, FALSE, "none")
  /\ UNCHANGED <<cloneOf, lookupTable, nextId>>

\* Object::Object(Object& other): a new object, copied from o
Clone(o) ==
  /\ Len(objs) < MaxObjects
  /\ objs' = Append(objs, ObjectCopy(objs[o]))
  /\ written' = Append(written, written[o])
  /\ cloneOf' = Append(cloneOf, o)
  /\ ret' = Call("clone", o, 0, 0, Len(objs) + 1, FALSE, "none")
  /\ UNCHANGED <<maps, allocs, lookupTable, nextId>>

\* Cell::map(Map* m) on an object: map_ = m
SetCellMap(o, m) ==
  /\ objs' = [objs EXCEPT ![o].map = m]
  /\ ret' = Call("map", o, 0, 0, m, FALSE, "none")
  /\ UNCHANGED <<maps, allocs, written, cloneOf, lookupTable, nextId>>

\* Cell::map(Map* m), which Map inherits, on the map cell c: map_ = m
SetMapMap(c, m) ==
  /\ maps' = [maps EXCEPT ![c].map = m]
  /\ ret' = Call("Map::map", 0, 0, 0, c, FALSE, "none")
  /\ UNCHANGED <<objs, allocs, written, cloneOf, lookupTable, nextId>>

\* ObjectMap::id(Id id) on the ObjectMap m: id_ = id
SetMapId(m, id) ==
  /\ maps[m].kind = OBJECT_MAP
  /\ maps' = [maps EXCEPT ![m].id = id]
  /\ ret' = Call("ObjectMap::id", 0, id, 0, m, FALSE, "none")
  /\ UNCHANGED <<objs, allocs, written, cloneOf, lookupTable, nextId>>

\* ObjectMap::index(Index index) on the ObjectMap m: index_ = index
SetMapIndex(m, index) ==
  /\ maps[m].kind = OBJECT_MAP
  /\ maps' = [maps EXCEPT ![m].index = index]
  /\ ret' = Call("ObjectMap::index", 0, 0, index, m, FALSE, "none")
  /\ UNCHANGED <<objs, allocs, written, cloneOf, lookupTable, nextId>>

\* an id generator that advances by two
newId_SkipOne(n) == [id |-> n, next |-> n + 2]

\* an id generator that hands out the same identifier every time
newId_Stuck(n) == [id |-> 0, next |-> n + 1]

\* IdGenerator::newId(): return nextId_++ (Id is std::uint32_t; the runs
\* below intern at most MaxNames names, far from its range)
newId(n) == [id |-> n, next |-> n + 1]

\* Id SymbolTable::lookup(std::string& string)
Lookup(string) ==
  /\ IF string \in DOMAIN lookupTable
     THEN /\ ret' = Call("lookup", 0, lookupTable[string], string, 0, TRUE, "none")
          /\ UNCHANGED <<lookupTable, nextId>>
     ELSE LET g == newId(nextId)
          IN  /\ nextId' = g.next
              /\ lookupTable' =
                   [s \in DOMAIN lookupTable \cup {string} |->
                      IF s = string THEN g.id ELSE lookupTable[s]]
              /\ ret' = Call("lookup", 0, g.id, string, 0, FALSE, "none")
  /\ UNCHANGED <<maps, objs, allocs, written, cloneOf>>

\* ------------------------------------------------------- specifications
Objects == DOMAIN objs

\* one object, used through set and get only
NextSet ==
  \/ \E o \in Objects, id \in Ids, value \in Values : Set(o, id, value)
  \/ \E o \in Objects, id \in Ids : Get(o, id)

SpecSet == Init /\ [][NextSet]_vars

\* one object, extended by newSlot directly as well as through set
NextSlot ==
  \/ \E o \in Objects, id \in Ids, value \in Values : Set(o, id, value)
  \/ \E o \in Objects, id \in Ids : Get(o, id)
  \/ \E o \in Objects, id \in Ids : Index(o, id)
  \/ \E o \in Objects, id \in Ids : NewSlot(o, id)

SpecSlot == Init /\ [][NextSlot]_vars

\* two objects, one of them past MAX_SLOTS, used through set and get only
SpecPair == InitPair /\ [][NextSet]_vars

\* objects that are copied, and used through set and get only
NextClone ==
  \/ \E o \in Objects, id \in Ids, value \in Values : Set(o, id, value)
  \/ \E o \in Objects, id \in Ids : Get(o, id)
  \/ \E o \in Objects : Clone(o)

SpecClone == Init /\ [][NextClone]_vars

\* the protocol of Object: objects are copied, read, written and extended
Next ==
  \/ \E o \in Objects, id \in Ids, value \in Values : Set(o, id, value)
  \/ \E o \in Objects, id \in Ids : Get(o, id)
  \/ \E o \in Objects, id \in Ids : Index(o, id)
  \/ \E o \in Objects, id \in Ids : NewSlot(o, id)
  \/ \E o \in Objects : Clone(o)

Spec == Init /\ [][Next]_vars

\* the public setters of Cell and ObjectMap as well
NextRaw ==
  \/ \E o \in Objects, id \in Ids, value \in Values : Set(o, id, value)
  \/ \E o \in Objects, id \in Ids : Get(o, id)
  \/ \E o \in Objects, id \in Ids : NewSlot(o, id)
  \/ \E o \in Objects, m \in DOMAIN maps : SetCellMap(o, m)
  \/ \E m \in DOMAIN maps, id \in Ids : SetMapId(m, id)
  \/ \E m \in DOMAIN maps, index \in IndexInputs : SetMapIndex(m, index)

SpecRaw == InitEmpty /\ [][NextRaw]_vars

\* an object extended by newSlot, and the setter Map has from Cell
NextMeta ==
  \/ \E o \in Objects, id \in Ids : NewSlot(o, id)
  \/ \E c \in DOMAIN maps, m \in DOMAIN maps : SetMapMap(c, m)

SpecMeta == InitEmpty /\ [][NextMeta]_vars

\* a chain as long as Index can count, extended by newSlot itself
NextDeep ==
  \/ \E o \in Objects, id \in Ids : NewSlot(o, id)
  \/ \E o \in Objects, id \in Ids : Index(o, id)
  \/ \E o \in Objects, id \in Ids : Get(o, id)
  \/ \E o \in Objects : Clone(o)

SpecDeep == InitDeep /\ [][NextDeep]_vars

\* the symbol table alone
NextIntern == \E string \in Names : Lookup(string)

SpecIntern == InitEmpty /\ [][NextIntern]_vars

\* ---------------------------------------------------------------- claims
\* what index(id) answers on object o in the current state
Resolve(o, id) == ObjectIndex(maps, objs[o].map, id)

\* The ObjectMaps from the map m down its parents, and the cell the walk ends
\* at; done stays FALSE if the parents never leave the ObjectMaps.
ChainStep(ms, st) ==
  IF st.m = Wild \/ ms[st.m].kind # OBJECT_MAP
  THEN [st EXCEPT !.done = TRUE]
  ELSE [st EXCEPT !.m = ms[st.m].parent, !.cells = @ \cup {st.m}]

Chain(ms, m) ==
  Repeat(LAMBDA s : ChainStep(ms, s), [m |-> m, done |-> FALSE, cells |-> {}],
         Len(ms) + 1)

\* every property on o's chain was added by a set on o or on the object it
\* was copied from: the chain is as long as the record of writes
SetOnly(o) ==
  Valid(o) /\ Depth(maps, objs[o].map) = Cardinality(DOMAIN written[o])

\* the step is a call op on object o that returned normally or not
IsCall(op, o) == ret'.op = op /\ ret'.obj = o

\* C1: on an object that got its properties through set alone, at most
\* MAX_SLOTS of them, get(id) returns (v, true) for every identifier written,
\* v being the value of the last set for that identifier.
C1_GetReturnsLastWritten ==
  \A o \in Objects :
    (SetOnly(o) /\ Cardinality(DOMAIN written[o]) <= MAX_SLOTS) =>
      \A id \in DOMAIN written[o] :
        {<<r.value, r.found, r.err>> : r \in GetOutcomes(maps, objs[o], id)} =
          {<<written[o][id].value, TRUE, "none">>}

\* an object holding MAX_SLOTS properties, all written by set, and a get
\* that returned the 1 written to the last of them
C1_Witness ==
  /\ SetOnly(1)
  /\ Cardinality(DOMAIN written[1]) = MAX_SLOTS
  /\ ret.op = "get" /\ ret.found /\ ret.value = 1 /\ ret.index = MAX_SLOTS - 1

\* C2: a set that adds the property number MAX_SLOTS returns slot index
\* MAX_SLOTS - 1; a set that would add property number MAX_SLOTS + 1 fails
\* with a capacity error and creates no map.
C2_CapacityBoundary ==
  [][\A o \in Objects :
       (IsCall("set", o) /\ ~Resolve(o, ret'.id).found) =>
         /\ Depth(maps, objs[o].map) = MAX_SLOTS - 1 =>
              ret'.err = "none" /\ ret'.index = MAX_SLOTS - 1
         /\ Depth(maps, objs[o].map) = MAX_SLOTS =>
              ret'.err = "SlotCapacityExceeded" /\ maps' = maps]_vars

\* C3: every ObjectMap has an index below MAX_SLOTS and a chain of at most
\* MAX_SLOTS ObjectMaps, and every index set returns is below MAX_SLOTS.
C3_SlotIndexInRange ==
  /\ \A m \in DOMAIN maps :
       maps[m].kind = OBJECT_MAP =>
         maps[m].index \in 0 .. MAX_SLOTS - 1 /\ Depth(maps, m) <= MAX_SLOTS
  /\ (ret.op = "set" /\ ret.err = "none") => ret.index \in 0 .. MAX_SLOTS - 1

\* C4: a set for an identifier the object already resolves keeps the
\* object's map and the heap of maps, returns the index the earlier set
\* returned, stores the value in that slot and leaves the other slots alone.
C4_OverwriteInPlace ==
  [][\A o \in Objects :
       (IsCall("set", o) /\ Resolve(o, ret'.id).found) =>
         /\ objs'[o].map = objs[o].map
         /\ maps' = maps
         /\ ret'.id \in DOMAIN written[o] => ret'.index = written[o][ret'.id].index
         /\ ret'.index \in DOMAIN objs[o].slots
         /\ objs'[o].slots = [objs[o].slots EXCEPT ![ret'.index] = ret'.value]]_vars

\* C5: a copy has the map and the slots of its source; a later set on the
\* copy leaves the source's map and slots as they were, and a set that adds a
\* property to the copy creates one map, whose parent is the copy's old map.
C5_CloneIndependence ==
  [][/\ ret'.op = "clone" /\ Len(objs') = Len(objs) + 1 =>
          /\ objs'[Len(objs')].map = objs[ret'.obj].map
          /\ objs'[Len(objs')].slots = objs[ret'.obj].slots
     /\ \A b \in Objects :
          (IsCall("set", b) /\ cloneOf[b] # 0) =>
            /\ objs'[cloneOf[b]] = objs[cloneOf[b]]
            /\ ~Resolve(b, ret'.id).found =>
                 /\ Len(maps') = Len(maps) + 1
                 /\ objs'[b].map = Len(maps')
                 /\ maps'[Len(maps')].parent = objs[b].map]_vars

\* C6: an ObjectMap on the EmptyObjectMap has index 0, an ObjectMap on an
\* ObjectMap has its parent's index plus one; so the index of every ObjectMap
\* is the length of its chain minus one.
C6_SlotContiguity ==
  \A m \in DOMAIN maps :
    maps[m].kind = OBJECT_MAP =>
      /\ maps[m].index =
           IF maps[maps[m].parent].kind = EMPTY_OBJECT_MAP
           THEN 0
           ELSE maps[maps[m].parent].index + 1
      /\ maps[m].index = Depth(maps, m) - 1

\* C7: lookup of a string that is in the table returns the identifier the
\* table holds for it, which never changes once entered; two different
\* strings never have the same identifier.
C7_InternStable ==
  /\ [](\A s, t \in DOMAIN lookupTable :
          s # t => lookupTable[s] # lookupTable[t])
  /\ [](ret.op = "lookup" => /\ ret.value \in DOMAIN lookupTable
                              /\ ret.id = lookupTable[ret.value])
  /\ [][\A s \in DOMAIN lookupTable :
          s \in DOMAIN lookupTable' /\ lookupTable'[s] = lookupTable[s]]_vars

\* two strings interned, and the last lookup was for a string already there
C7_Witness ==
  /\ Cardinality(DOMAIN lookupTable) >= 2
  /\ ret.op = "lookup" /\ ret.found

\* C8: get for an identifier that is not on the object's chain returns
\* (0, false) without an error; every get leaves the objects and the heap
\* of maps as they were.
C8_GetAbsent ==
  [][\A o \in Objects :
       IsCall("get", o) =>
         /\ objs' = objs /\ maps' = maps
         /\ ~Resolve(o, ret'.id).found =>
              ret'.value = 0 /\ ~ret'.found /\ ret'.err = "none"]_vars

\* a get on an object with properties, for an identifier it does not have
C8_Witness ==
  /\ ret.op = "get" /\ ~ret.found /\ ret.err = "none"
  /\ Depth(maps, objs[ret.obj].map) > 0
  /\ \E i \in DOMAIN objs[ret.obj].slots : objs[ret.obj].slots[i] # 0

\* C9: the fields of a map cell never change once the cell exists.
C9_MapsImmutable ==
  [][\A m \in DOMAIN maps : maps'[m] = maps[m]]_vars

\* C10: index, get, set and newSlot on an object whose map is the MapMap end
\* with the invalid-kind error (newSlot's std::runtime_error) and change
\* neither the objects nor the heap of maps.
C10_InvalidKindRaised ==
  [][\A o \in Objects :
       (/\ ret'.op \in {"index", "get", "set", "newSlot"}
        /\ ret'.obj = o
        /\ Valid(o)
        /\ maps[objs[o].map].kind = MAP_MAP) =>
         ret'.err = "runtime_error" /\ objs' = objs /\ maps' = maps]_vars

\* C11: a set for an identifier the object does not resolve, on an object
\* with n < MAX_SLOTS properties, appends one ObjectMap whose parent is the
\* object's old map and whose id is the identifier, makes it the object's map
\* (n + 1 properties), stores the value in slot n, leaves the other slots as
\* they were and returns n; a get for the identifier then returns
\* (value, true).
C11_SetAddsProperty ==
  [][\A o \in Objects :
       (/\ IsCall("set", o)
        /\ ~Resolve(o, ret'.id).found
        /\ Depth(maps, objs[o].map) < MAX_SLOTS) =>
         LET n == Depth(maps, objs[o].map)
         IN  /\ ret'.err = "none"
             /\ Len(maps') = Len(maps) + 1
             /\ \A m \in DOMAIN maps : maps'[m] = maps[m]
             /\ maps'[Len(maps')].kind = OBJECT_MAP
             /\ maps'[Len(maps')].parent = objs[o].map
             /\ maps'[Len(maps')].id = ret'.id
             /\ objs'[o].map = Len(maps')
             /\ Depth(maps', objs'[o].map) = n + 1
             /\ ret'.index = n
             /\ objs'[o].slots = [objs[o].slots EXCEPT ![n] = ret'.value]
             /\ {<<r.value, r.found, r.err>> :
                   r \in GetOutcomes(maps', objs'[o], ret'.id)} =
                  {<<ret'.value, TRUE, "none">>}]_vars

\* a set that added the last property the object has room for, with value 1
C11_Witness ==
  /\ ret.op = "set" /\ ~ret.found /\ ret.err = "none"
  /\ ret.index = MAX_SLOTS - 1 /\ ret.value = 1
  /\ Depth(maps, objs[ret.obj].map) = MAX_SLOTS
  /\ objs[ret.obj].slots[MAX_SLOTS - 1] = 1

\* C12: on the chain of an object that was constructed on the EmptyObjectMap
\* or copied, and changed by set alone, no two ObjectMaps have the same id.
C12_UniqueIds ==
  \A o \in Objects :
    Valid(o) =>
      \A a, b \in Chain(maps, objs[o].map).cells :
        a # b => maps[a].id # maps[b].id

\* a copy with properties of its own, and a set on it for an identifier it
\* already had
C12_Witness ==
  /\ ret.op = "set" /\ ret.found /\ ret.err = "none"
  /\ cloneOf[ret.obj] # 0
  /\ Depth(maps, objs[ret.obj].map) > Depth(maps, objs[cloneOf[ret.obj]].map)

\* the ObjectMaps with the identifier id on the chain of object o
Matches(o, id) == {c \in Chain(maps, objs[o].map).cells : maps[c].id = id}

\* the one of a set of cells that was allocated last
Newest(cells) == CHOOSE c \in cells : \A d \in cells : d <= c

\* C13: index, get and set for an identifier take the index of the ObjectMap
\* with that id that was added to the object's chain last, also when newSlot
\* put the id on the chain a second time: set stores into that slot and get
\* reads it, and the index of an older ObjectMap with the id is not returned.
C13_NewestMatchWins ==
  [][(ret'.op \in {"index", "get", "set"} /\ ret'.err = "none") =>
       \A o \in {ret'.obj} :
         \A cells \in {Matches(o, ret'.id)} :
           cells # {} =>
             \A last \in {Newest(cells)} :
               /\ ret'.found
               /\ ret'.index = maps[last].index
               /\ maps' = maps /\ objs'[o].map = objs[o].map
               /\ \A c \in cells \ {last} :
                    /\ maps[c].index # ret'.index
                    /\ maps[c].index < MAX_SLOTS =>
                         objs'[o].slots[maps[c].index] =
                           objs[o].slots[maps[c].index]
               /\ (maps[last].index < MAX_SLOTS /\ ret'.op = "get") =>
                    ret'.value = objs[o].slots[maps[last].index]
               /\ (maps[last].index < MAX_SLOTS /\ ret'.op = "set") =>
                    objs'[o].slots =
                      [objs[o].slots EXCEPT ![maps[last].index] = ret'.value]]_vars

\* newSlot put an identifier on the chain that set had put there before: the
\* old slot holds the 1 that was set, and get returns the new slot's 0
C13_Witness ==
  /\ ret.op = "get" /\ ret.found /\ ret.value = 0
  /\ Cardinality(Matches(ret.obj, ret.id)) = 2
  /\ ret.index = maps[Newest(Matches(ret.obj, ret.id))].index
  /\ \E c \in Matches(ret.obj, ret.id) :
       maps[c].index < ret.index /\ objs[ret.obj].slots[maps[c].index] = 1

\* C14: every newSlot, called directly or by set, allocates a cell that was
\* not in the heap before and leaves the cells that were as they are; the
\* object's map becomes that cell, which no other object has as its map, also
\* when a cell with the same parent, id and index exists already.
C14_FreshMapPerNewSlot ==
  [][\A o \in Objects :
       (/\ ret'.obj = o /\ ret'.err = "none"
        /\ \/ ret'.op = "newSlot"
           \/ ret'.op = "set" /\ ~Resolve(o, ret'.id).found) =>
         /\ objs'[o].map \in DOMAIN maps' \ DOMAIN maps
         /\ Len(maps') = Len(maps) + 1
         /\ \A m \in DOMAIN maps : maps'[m] = maps[m]
         /\ maps'[objs'[o].map].parent = objs[o].map
         /\ maps'[objs'[o].map].id = ret'.id
         /\ \A p \in DOMAIN objs' \ {o} : objs'[p].map # objs'[o].map]_vars

\* two objects that added the same identifier on the same map: their maps
\* have the same parent, id and index and are two cells
C14_Witness ==
  /\ Len(objs) = 2 /\ Valid(1) /\ Valid(2)
  /\ objs[1].map # objs[2].map
  /\ maps[objs[1].map].kind = OBJECT_MAP
  /\ maps[objs[1].map] = maps[objs[2].map]
  /\ ret.op \in {"newSlot", "set"}

\* C15: the map_ of every map cell is the MapMap: the MapMap's is the MapMap
\* itself, and an ObjectMap has the one its parent had when newSlot
\* constructed it.
C15_MetaIsMapMap ==
  \A m \in DOMAIN maps :
    /\ maps[m].map = MapMapRef
    /\ maps[maps[m].map].kind = MAP_MAP

\* C16: in an object that was constructed on the EmptyObjectMap or copied,
\* and changed by set alone, every slot whose index is at least the number of
\* ObjectMaps on the object's chain holds 0.
C16_UnusedSlotsZero ==
  \A o \in Objects :
    Valid(o) =>
      \A i \in DOMAIN objs[o].slots :
        i >= Depth(maps, objs[o].map) => objs[o].slots[i] = 0

\* C17: the parents of every object's map lead, without passing a cell
\* twice, to the EmptyObjectMap, over at most MAX_SLOTS ObjectMaps: that
\* bounds the walk of Object::index, which get and set call.
C17_BoundedWalk ==
  \A o \in Objects :
    Valid(o) =>
      LET c == Chain(maps, objs[o].map)
      IN  /\ c.done /\ c.m = EmptyRef
          /\ \A a \in c.cells : maps[a].parent < a
          /\ Cardinality(c.cells) <= MAX_SLOTS

\* C18: nextId_ starts at 0 and is the number of strings in the table, whose
\* identifiers are 0 .. nextId_ - 1; a lookup of a string that is not in the
\* table returns nextId_, enters the string with it and adds one to nextId_
\* (the k-th new string gets k - 1); a lookup of a string that is in the
\* table changes neither nextId_ nor the table.
C18_CounterAdvance ==
  /\ nextId = 0
  /\ [](/\ nextId = Cardinality(DOMAIN lookupTable)
        /\ {lookupTable[s] : s \in DOMAIN lookupTable} = 0 .. nextId - 1)
  /\ [][ret'.op = "lookup" =>
          IF ret'.value \in DOMAIN lookupTable
          THEN /\ nextId' = nextId
               /\ lookupTable' = lookupTable
               /\ ret'.id = lookupTable[ret'.value]
          ELSE /\ nextId' = nextId + 1
               /\ ret'.id = Cardinality(DOMAIN lookupTable)
               /\ DOMAIN lookupTable' = DOMAIN lookupTable \cup {ret'.value}
               /\ lookupTable'[ret'.value] = nextId
               /\ \A s \in DOMAIN lookupTable :
                    lookupTable'[s] = lookupTable[s]]_vars

\* every name has been interned, the last of them just now
C18_Witness ==
  /\ ret.op = "lookup" /\ ~ret.found
  /\ ret.id = MaxNames - 1 /\ nextId = MaxNames
  /\ DOMAIN lookupTable = Names

====
